---- MODULE Spec2Model ----
(***************************************************************************)
(* Render-state management of PyIGL_viewer's ViewerWidget: the two command *)
(* queues (mesh_events, post_draw_events), the Mesh Group Registry         *)
(* (mesh_groups), the identifiers minted by the public methods, and the    *)
(* stages of a frame (paintGL).                                            *)
(*                                                                         *)
(* Producer threads call the public methods; the render thread runs        *)
(* paintGL.  One step of the render thread is one iteration of a drain     *)
(* loop (pop and apply one command) or one stage of the frame, so producer *)
(* calls interleave with the frame at every point the threads can.         *)
(*                                                                         *)
(* A Python exception that leaves paintGL ends the frame: the remaining    *)
(* stages of that frame do not run.  The model then returns the render     *)
(* thread to "idle"; a host that terminates the process instead produces   *)
(* a prefix of these behaviours.                                           *)
(***************************************************************************)
EXTENDS Integers, Sequences, FiniteSets, TLC

(***************************************************************************)
(* Bounds of the model.                                                    *)
(***************************************************************************)
\* number of public-method calls made by the producers, key presses included
MaxCalls == 4
\* number of add_mesh calls
MaxCores == 2
\* number of add_mesh_prefab calls made by the producers
MaxPrefabs == 2
\* number of add_mesh_instance calls made by the producers
MaxInstances == 2
\* commands on the pre-draw queue, where the calls are not counted
MaxQueue == 2

(***************************************************************************)
(* Values the producers draw their arguments from.                         *)
(***************************************************************************)
\* producer threads
Producers == {"app", "worker"}
\* mesh payloads (a vertices array together with its faces array)
Meshes == {"meshA", "meshB"}
\* values of a uniform
Values == {1, 2}
\* a shader name that no .vert file of the shader folder provides
NoSuchShader == "nosuch"
\* point clouds (N x 3 arrays) and their number of points
PointClouds == {"points2", "points3"}
shape0(points) == IF points = "points2" THEN 2 ELSE 3
\* model matrices: absent, the identity, some other transform
NoMatrix == "None"
Identity == "eye4"
Matrices == {NoMatrix, Identity, "M"}

VARIABLES
    mesh_groups,       \* self.mesh_groups: core id -> MeshGroup
    mesh_events,       \* self.mesh_events (pre-draw queue)
    post_draw_events,  \* self.post_draw_events (post-draw queue)
    vertices,          \* self.vertices  (mesh the array was built from, or "None")
    faces,             \* self.faces
    face_positions,    \* self.face_positions
    face_normals,      \* self.face_normals
    draw_wireframe,    \* self.draw_wireframe
    ids,               \* the class-level id counters of GlMeshCoreId/PrefabId/InstanceId
    stage,             \* where the render thread is in paintGL
    mvp_matrix,        \* the local mvp_matrix of paintGL: bound or not
    call,              \* per producer thread: the add_mesh call in progress, or "idle"
    hist,              \* history of the run (what was called, returned and applied)
    default_vertex_attributes,  \* the dict that is display_point_cloud's default
                                \* for vertex_attributes (one object per process)
    cursor_pos,        \* self.cursor_pos
    draw_indices_distance,  \* self.draw_indices_distance
    camera_position,   \* self.camera.get_position()
    projected_vertices,  \* paintGL's projected_vertices, in pixels and depth
    overlay            \* what the picking stage of the last frame gave the painter

\* the state the picking stage computes on, beside faces, face_positions, face_normals
picking_vars == <<cursor_pos, draw_indices_distance, camera_position, projected_vertices,
                  overlay>>

vars == <<mesh_groups, mesh_events, post_draw_events, vertices, faces, face_positions,
          face_normals, draw_wireframe, ids, stage, mvp_matrix, call, hist,
          default_vertex_attributes, picking_vars>>

(***************************************************************************)
(* Identifiers (PyIGL_viewer.mesh: GlMeshCoreId, GlMeshPrefabId,           *)
(* GlMeshInstanceId).  An id carries the ordinals of its ancestors; a      *)
(* level that the id does not have is 0, ordinals start at 1.              *)
(***************************************************************************)
NoId == [core_id |-> 0, prefab_id |-> 0, instance_id |-> 0]

GlMeshCoreIdLostUpdate(counters) ==
    [id |-> [core_id |-> counters.core + 1, prefab_id |-> 0, instance_id |-> 0],
     counters |-> counters]

\* GlMeshCoreId(): mints the next core ordinal
GlMeshCoreId(counters) ==
    [id |-> [core_id |-> counters.core + 1, prefab_id |-> 0, instance_id |-> 0],
     counters |-> [counters EXCEPT !.core = @ + 1]]

\* GlMeshPrefabId(core_id): mints the next prefab ordinal under the core of `parent`
GlMeshPrefabId(counters, parent) ==
    [id |-> [core_id |-> parent.core_id, prefab_id |-> counters.prefab + 1, instance_id |-> 0],
     counters |-> [counters EXCEPT !.prefab = @ + 1]]

\* GlMeshInstanceId(prefab_id): mints the next instance ordinal under `parent`
GlMeshInstanceId(counters, parent) ==
    [id |-> [core_id |-> parent.core_id, prefab_id |-> parent.prefab_id,
             instance_id |-> counters.instance + 1],
     counters |-> [counters EXCEPT !.instance = @ + 1]]

(***************************************************************************)
(* Shader registry (self.shaders), filled once by add_shaders from the     *)
(* shader folder.                                                          *)
(***************************************************************************)
shaders == {"default", "lambert", "wireframe", "per_vertex_color"}

(***************************************************************************)
(* Commands.  A command is the list put on a queue: its tag and its        *)
(* arguments.  seq is the position of the command in the order of puts on  *)
(* its queue (bookkeeping of the model).  vertexColor is the number of     *)
(* rows of vertex_attributes["vertexColor"], 0 when there is no such key.  *)
(***************************************************************************)
Command(type, id) ==
    [type |-> type, id |-> id, mesh |-> "None", shader |-> "default", fits |-> {},
     val |-> 0, fill |-> TRUE, copy_from |-> NoId, normal |-> "None",
     model |-> NoMatrix, visible |-> TRUE, vertexColor |-> 0, seq |-> 0]

(***************************************************************************)
(* Finite maps (Python dicts).                                             *)
(***************************************************************************)
EmptyMap == [k \in {} |-> 0]
MapPut(f, k, v) == [x \in DOMAIN f \cup {k} |-> IF x = k THEN v ELSE f[x]]
MapPop(f, k) == [x \in DOMAIN f \ {k} |-> f[x]]

\* the outcome of a lookup: the value, or the exception it raises
Found(v) == [raised |-> "none", value |-> v]
KeyError == [raised |-> "KeyError"]

(***************************************************************************)
(* MeshGroup (PyIGL_viewer.mesh): one core with its prefabs and instances. *)
(*   mesh      the vertices/faces of the core                              *)
(*   prefabs   prefab ordinal -> [shader, x, fill, vertex_attribute,       *)
(*             face_attribute, vertexColor]; x is the value of the uniform *)
(*             "x", 0 when the prefab has no such uniform; vertexColor is  *)
(*             the number of rows of that vertex attribute, 0 without it   *)
(*   instances instance ordinal -> [prefab, model, visible]                *)
(***************************************************************************)
MeshGroup(m) == [mesh |-> m, prefabs |-> EmptyMap, instances |-> EmptyMap]

\* MeshGroup.get_prefab
get_prefab(group, prefab_id) ==
    IF prefab_id.prefab_id \in DOMAIN group.prefabs
    THEN Found(group.prefabs[prefab_id.prefab_id])
    ELSE KeyError

\* MeshGroup.get_instance
get_instance(group, instance_id) ==
    IF instance_id.instance_id \in DOMAIN group.instances
    THEN Found(group.instances[instance_id.instance_id])
    ELSE KeyError

\* MeshGroup.add_prefab: the attribute and uniform maps are checked against the
\* shader (ev.fits: the shaders they satisfy); copy_from supplies the base maps
add_prefab(group, ev, shader, base) ==
    IF shader \notin ev.fits
    THEN [raised |-> "ValueError"]
    ELSE Found([group EXCEPT !.prefabs = MapPut(@, ev.id.prefab_id,
                   [shader |-> shader,
                    x |-> IF ev.val # 0 THEN ev.val
                          ELSE IF base.raised = "none" THEN base.value.x ELSE 0,
                    fill |-> ev.fill,
                    vertex_attribute |-> 0,
                    face_attribute |-> 0,
                    vertexColor |-> ev.vertexColor])])

\* MeshGroup.add_instance: the prefab of the instance has to be in the group
add_instance(group, instance_id, model_matrix) ==
    IF instance_id.prefab_id \notin DOMAIN group.prefabs
    THEN KeyError
    ELSE Found([group EXCEPT !.instances = MapPut(@, instance_id.instance_id,
                   [prefab |-> instance_id.prefab_id, model |-> model_matrix,
                    visible |-> TRUE])])

\* MeshGroup.remove_prefab: the prefab goes, and its instances with it
remove_prefab(group, prefab_id) ==
    IF prefab_id.prefab_id \notin DOMAIN group.prefabs
    THEN KeyError
    ELSE Found([group EXCEPT
                   !.prefabs = MapPop(@, prefab_id.prefab_id),
                   !.instances = [i \in {j \in DOMAIN @ : @[j].prefab # prefab_id.prefab_id}
                                    |-> @[i]]])

\* MeshGroup.remove_instance
remove_instance(group, instance_id) ==
    IF instance_id.instance_id \notin DOMAIN group.instances
    THEN KeyError
    ELSE Found([group EXCEPT !.instances = MapPop(@, instance_id.instance_id)])

\* MeshGroup.update_vertices
update_vertices(group, m) == [group EXCEPT !.mesh = m]

\* MeshPrefab.update_uniform
update_uniform(group, prefab_id, value) ==
    IF prefab_id.prefab_id \notin DOMAIN group.prefabs
    THEN KeyError
    ELSE Found([group EXCEPT !.prefabs[prefab_id.prefab_id].x = value])

\* MeshGroup.update_prefab_vertex_attribute
update_prefab_vertex_attribute(group, prefab_id, value) ==
    IF prefab_id.prefab_id \notin DOMAIN group.prefabs
    THEN KeyError
    ELSE Found([group EXCEPT !.prefabs[prefab_id.prefab_id].vertex_attribute = value])

\* MeshGroup.update_prefab_face_attribute
update_prefab_face_attribute(group, prefab_id, value) ==
    IF prefab_id.prefab_id \notin DOMAIN group.prefabs
    THEN KeyError
    ELSE Found([group EXCEPT !.prefabs[prefab_id.prefab_id].face_attribute = value])

\* MeshInstance.set_model_matrix
set_model_matrix(group, instance_id, model) ==
    IF instance_id.instance_id \notin DOMAIN group.instances
    THEN KeyError
    ELSE Found([group EXCEPT !.instances[instance_id.instance_id].model = model])

\* MeshInstance.set_visibility
set_visibility(group, instance_id, visibility) ==
    IF instance_id.instance_id \notin DOMAIN group.instances
    THEN KeyError
    ELSE Found([group EXCEPT !.instances[instance_id.instance_id].visible = visibility])

(***************************************************************************)
(* Lookups of ViewerWidget.                                                *)
(***************************************************************************)
\* get_mesh: self.mesh_groups[mesh_id.core_id]
get_mesh(groups, mesh_id) ==
    IF mesh_id.core_id \in DOMAIN groups THEN Found(groups[mesh_id.core_id]) ELSE KeyError

\* get_mesh_prefab: self.get_mesh(prefab_id).get_prefab(prefab_id)
get_mesh_prefab(groups, prefab_id) ==
    IF get_mesh(groups, prefab_id).raised # "none"
    THEN KeyError
    ELSE get_prefab(get_mesh(groups, prefab_id).value, prefab_id)

\* get_mesh_instance: self.get_mesh(instance_id).get_instance(instance_id)
get_mesh_instance(groups, instance_id) ==
    IF get_mesh(groups, instance_id).raised # "none"
    THEN KeyError
    ELSE get_instance(get_mesh(groups, instance_id).value, instance_id)

(***************************************************************************)
(* The part of the widget that the public methods and the apply routines   *)
(* read and write, as one record w:                                        *)
(*   w.mesh_groups, w.mesh_events, w.face_normals, w.ids, w.hist           *)
(*   w.raised   the exception that left the routine, "none" if it returned *)
(*   w.ret      the id a public method returned                            *)
(***************************************************************************)
Raise(w, err) == [w EXCEPT !.raised = err]

\* Queue.put on self.mesh_events
PutMeshEvent(w, ev) ==
    [w EXCEPT !.mesh_events = Append(@, [ev EXCEPT !.seq = w.hist.puts + 1]),
              !.hist.puts = @ + 1]

\* Queue.get(block=False) on a non-empty queue: the oldest command
QueueGetNewest(q) == [event |-> q[Len(q)], rest |-> SubSeq(q, 1, Len(q) - 1)]
QueueGet(q) == [event |-> Head(q), rest |-> Tail(q)]

\* add_mesh_prefab (public): mints the id, keeps the "normal" face attribute for
\* the label overlay, enqueues
add_mesh_prefab(w, ev) ==
    LET minted == GlMeshPrefabId(w.ids, ev.id)
        w1 == [w EXCEPT !.ids = minted.counters,
                        !.hist.returned.prefab = Append(@, minted.id),
                        !.face_normals = IF ev.normal # "None" THEN ev.normal ELSE @]
    IN  [PutMeshEvent(w1, [ev EXCEPT !.type = "add_mesh_prefab", !.id = minted.id])
            EXCEPT !.ret = minted.id]

\* add_mesh_instance (public): mints the id, enqueues
add_mesh_instance(w, ev) ==
    LET minted == GlMeshInstanceId(w.ids, ev.id)
        w1 == [w EXCEPT !.ids = minted.counters,
                        !.hist.returned.instance = Append(@, minted.id)]
    IN  [PutMeshEvent(w1, [ev EXCEPT !.type = "add_mesh_instance", !.id = minted.id])
            EXCEPT !.ret = minted.id]

(***************************************************************************)
(* Apply routines (the methods whose name ends in "_").                    *)
(***************************************************************************)
\* apply `f` to the group of `id`, KeyError when the core is not in the registry
OnGroup(w, id, result) ==
    IF result.raised # "none"
    THEN Raise(w, result.raised)
    ELSE [w EXCEPT !.mesh_groups[id.core_id] = result.value]

add_mesh_(w, ev) ==
    [w EXCEPT !.mesh_groups = MapPut(@, ev.id.core_id, MeshGroup(ev.mesh))]

add_mesh_prefab_(w, ev) ==
    IF ev.shader \notin shaders
    THEN w
    ELSE LET base == IF ev.copy_from # NoId
                     THEN get_mesh_prefab(w.mesh_groups, ev.copy_from)
                     ELSE [raised |-> "none", value |-> [x |-> 0]]
             core == get_mesh(w.mesh_groups, ev.id)
         IN  IF base.raised # "none" THEN Raise(w, base.raised)
             ELSE IF core.raised # "none" THEN Raise(w, core.raised)
             ELSE IF add_prefab(core.value, ev, ev.shader, base).raised = "ValueError"
                  THEN \* print(err), then the same with self.shaders["default"]
                       OnGroup([w EXCEPT !.hist.printed = TRUE], ev.id,
                               add_prefab(core.value, ev, "default", base))
                  ELSE OnGroup(w, ev.id, add_prefab(core.value, ev, ev.shader, base))

add_mesh_instance_Dropped(w, ev) ==
    LET core == get_mesh(w.mesh_groups, ev.id)
    IN  IF core.raised # "none" THEN Raise(w, core.raised) ELSE w

add_mesh_instance_(w, ev) ==
    LET core == get_mesh(w.mesh_groups, ev.id)
    IN  IF core.raised # "none" THEN Raise(w, core.raised)
        ELSE OnGroup(w, ev.id, add_instance(core.value, ev.id, ev.model))

update_mesh_vertices_(w, ev) ==
    LET core == get_mesh(w.mesh_groups, ev.id)
    IN  IF core.raised # "none" THEN Raise(w, core.raised)
        ELSE OnGroup(w, ev.id, Found(update_vertices(core.value, ev.mesh)))

update_mesh_prefab_uniform_KeepFirst(w, ev) ==
    LET core == get_mesh(w.mesh_groups, ev.id)
    IN  IF core.raised # "none" THEN Raise(w, core.raised)
        ELSE IF get_prefab(core.value, ev.id).raised = "none"
                /\ get_prefab(core.value, ev.id).value.x # 0
             THEN w
             ELSE OnGroup(w, ev.id, update_uniform(core.value, ev.id, ev.val))

update_mesh_prefab_uniform_(w, ev) ==
    LET core == get_mesh(w.mesh_groups, ev.id)
    IN  IF core.raised # "none" THEN Raise(w, core.raised)
        ELSE OnGroup(w, ev.id, update_uniform(core.value, ev.id, ev.val))

update_mesh_prefab_vertex_attribute_(w, ev) ==
    LET core == get_mesh(w.mesh_groups, ev.id)
    IN  IF core.raised # "none" THEN Raise(w, core.raised)
        ELSE OnGroup(w, ev.id, update_prefab_vertex_attribute(core.value, ev.id, ev.val))

update_mesh_prefab_face_attribute_(w, ev) ==
    LET core == get_mesh(w.mesh_groups, ev.id)
    IN  IF core.raised # "none" THEN Raise(w, core.raised)
        ELSE OnGroup(w, ev.id, update_prefab_face_attribute(core.value, ev.id, ev.val))

update_mesh_instance_model_(w, ev) ==
    LET core == get_mesh(w.mesh_groups, ev.id)
    IN  IF core.raised # "none" THEN Raise(w, core.raised)
        ELSE OnGroup(w, ev.id, set_model_matrix(core.value, ev.id, ev.model))

set_mesh_instance_visibility_(w, ev) ==
    LET core == get_mesh(w.mesh_groups, ev.id)
    IN  IF core.raised # "none" THEN Raise(w, core.raised)
        ELSE OnGroup(w, ev.id, set_visibility(core.value, ev.id, ev.visible))

\* the ids of a core and of the prefabs and instances its group holds
IdsOfGroup(groups, c) ==
    {[core_id |-> c, prefab_id |-> 0, instance_id |-> 0]}
    \cup {[core_id |-> c, prefab_id |-> q, instance_id |-> 0] : q \in DOMAIN groups[c].prefabs}
    \cup {[core_id |-> c, prefab_id |-> groups[c].instances[i].prefab, instance_id |-> i] :
             i \in DOMAIN groups[c].instances}

\* self.mesh_groups.pop(core_id.core_id); hist.removed: what remove_mesh_ took out
remove_mesh_KeepGroup(w, ev) ==
    IF ev.id.core_id \notin DOMAIN w.mesh_groups
    THEN Raise(w, "KeyError")
    ELSE [w EXCEPT !.mesh_groups[ev.id.core_id].instances = EmptyMap,
                   !.hist.removed = @ \cup IdsOfGroup(w.mesh_groups, ev.id.core_id)]

remove_mesh_(w, ev) ==
    IF ev.id.core_id \notin DOMAIN w.mesh_groups
    THEN Raise(w, "KeyError")
    ELSE [w EXCEPT !.mesh_groups = MapPop(@, ev.id.core_id),
                   !.hist.removed = @ \cup IdsOfGroup(w.mesh_groups, ev.id.core_id)]

remove_mesh_prefab_WholeCore(w, ev) ==
    LET core == get_mesh(w.mesh_groups, ev.id)
    IN  IF core.raised # "none" THEN Raise(w, core.raised)
        ELSE IF remove_prefab(core.value, ev.id).raised # "none"
             THEN Raise(w, "KeyError")
             ELSE [w EXCEPT !.mesh_groups = MapPop(@, ev.id.core_id),
                            !.hist.removed_prefabs = @ \cup {ev.id}]

\* hist.removed_prefabs: the prefabs remove_mesh_prefab_ took out
remove_mesh_prefab_(w, ev) ==
    LET core == get_mesh(w.mesh_groups, ev.id)
    IN  IF core.raised # "none" THEN Raise(w, core.raised)
        ELSE OnGroup([w EXCEPT !.hist.removed_prefabs =
                                  IF ev.id.prefab_id \in DOMAIN core.value.prefabs
                                  THEN @ \cup {ev.id} ELSE @],
                     ev.id, remove_prefab(core.value, ev.id))

remove_mesh_instance_(w, ev) ==
    LET core == get_mesh(w.mesh_groups, ev.id)
    IN  IF core.raised # "none" THEN Raise(w, core.raised)
        ELSE OnGroup(w, ev.id, remove_instance(core.value, ev.id))

clear_all_(w, ev) == [w EXCEPT !.mesh_groups = EmptyMap]

\* add_wireframe_: calls the public add_mesh_prefab, then looks the instance up
\* for its model matrix, then calls the public add_mesh_instance
add_wireframe_(w, ev) ==
    LET w1 == add_mesh_prefab(w, [Command("add_mesh_prefab", ev.id) EXCEPT
                                     !.shader = "wireframe", !.fits = shaders,
                                     !.fill = FALSE])
        prefab_index == w1.ret
        instance == get_mesh_instance(w1.mesh_groups, ev.id)
    IN  IF instance.raised # "none"
        THEN Raise(w1, instance.raised)
        ELSE add_mesh_instance(w1, [Command("add_mesh_instance", prefab_index) EXCEPT
                                       !.model = instance.value.model])

\* getattr(self, event_type + "_")(*event[1:])
Dispatch(w, ev) ==
    CASE ev.type = "add_mesh" -> add_mesh_(w, ev)
      [] ev.type = "add_mesh_prefab" -> add_mesh_prefab_(w, ev)
      [] ev.type = "add_mesh_instance" -> add_mesh_instance_(w, ev)
      [] ev.type = "update_mesh_vertices" -> update_mesh_vertices_(w, ev)
      [] ev.type = "update_mesh_prefab_uniform" -> update_mesh_prefab_uniform_(w, ev)
      [] ev.type = "update_mesh_prefab_vertex_attribute" ->
                                        update_mesh_prefab_vertex_attribute_(w, ev)
      [] ev.type = "update_mesh_prefab_face_attribute" ->
                                        update_mesh_prefab_face_attribute_(w, ev)
      [] ev.type = "update_mesh_instance_model" -> update_mesh_instance_model_(w, ev)
      [] ev.type = "set_mesh_instance_visibility" -> set_mesh_instance_visibility_(w, ev)
      [] ev.type = "remove_mesh" -> remove_mesh_(w, ev)
      [] ev.type = "remove_mesh_prefab" -> remove_mesh_prefab_(w, ev)
      [] ev.type = "remove_mesh_instance" -> remove_mesh_instance_(w, ev)
      [] ev.type = "clear_all" -> clear_all_(w, ev)
      [] ev.type = "add_wireframe" -> add_wireframe_(w, ev)

\* one iteration of the loop of process_mesh_events on a non-empty queue:
\* get the command, look its apply routine up, call it
ProcessOneMeshEventDiscarding(w) ==
    LET got == QueueGet(w.mesh_events)
        done == Dispatch([w EXCEPT !.mesh_events = got.rest,
                                   !.hist.applied = @ + 1,
                                   !.hist.last_event = got.event],
                         got.event)
    IN  IF done.raised = "none" THEN done ELSE [done EXCEPT !.mesh_events = <<>>]

ProcessOneMeshEvent(w) ==
    LET got == QueueGet(w.mesh_events)
    IN  Dispatch([w EXCEPT !.mesh_events = got.rest,
                           !.hist.applied = @ + 1,
                           !.hist.last_event = got.event],
                 got.event)

\* process_mesh_events as a whole, with no producer running meanwhile: the loop
\* ends when the queue is empty (Empty is caught) or when an apply routine
\* raises (nothing catches it)
RECURSIVE process_mesh_events(_)
process_mesh_events(w) ==
    IF w.mesh_events = <<>> \/ w.raised # "none"
    THEN w
    ELSE process_mesh_events(ProcessOneMeshEvent(w))

(***************************************************************************)
(* State of the widget as the record the routines above work on.           *)
(***************************************************************************)
World ==
    [mesh_groups |-> mesh_groups, mesh_events |-> mesh_events,
     face_normals |-> face_normals, ids |-> ids, hist |-> hist, raised |-> "none",
     ret |-> NoId]

\* the variables take the values of the record
Becomes(w) ==
    /\ mesh_groups' = w.mesh_groups
    /\ mesh_events' = w.mesh_events
    /\ face_normals' = w.face_normals
    /\ ids' = w.ids
    /\ hist' = w.hist

\* a public method was called by a producer
Called(w) == [w EXCEPT !.hist.calls = @ + 1]

\* the producer knows the id it was returned
Returned(w) == [w EXCEPT !.hist.known = @ \cup {w.ret}]

KnownCores == {id \in hist.known : id.prefab_id = 0}
KnownPrefabs == {id \in hist.known : id.prefab_id # 0 /\ id.instance_id = 0}
KnownInstances == {id \in hist.known : id.instance_id # 0}

(***************************************************************************)
(* ViewerWidget.__init__                                                   *)
(***************************************************************************)
\* the history of a run in which nothing was called yet
NoHistory ==
    [calls |-> 0,
     puts |-> 0, applied |-> 0, failed |-> 0,
     last_event |-> Command("none", NoId),
     post_puts |-> 0, post_applied |-> 0,
     last_post_event |-> Command("none", NoId),
     returned |-> [core |-> <<>>, prefab |-> <<>>, instance |-> <<>>],
     known |-> {}, removed |-> {}, removed_prefabs |-> {},
     uniform_puts |-> EmptyMap, clouds |-> EmptyMap,
     printed |-> FALSE,
     frame |-> [drained |-> FALSE, drawn |-> FALSE, overlay |-> FALSE]]

WidgetInit ==
    /\ mesh_groups = EmptyMap
    /\ mesh_events = <<>>
    /\ post_draw_events = <<>>
    /\ vertices = "None"
    /\ faces = "None"
    /\ face_positions = "None"
    /\ face_normals = "None"
    /\ draw_wireframe = TRUE
    /\ ids = [core |-> 0, prefab |-> 0, instance |-> 0]
    /\ stage = "idle"
    /\ mvp_matrix = FALSE
    /\ call = [t \in Producers |-> "idle"]
    /\ hist = NoHistory

\* what the painter has been given when no picking stage has run; without a
\* selection selected_triangle is <<>> and selected_idx is 0 (for None);
\* visible_face_idx is the local of that name, {} when it was not computed
NoOverlay ==
    [raised |-> "none", intersections |-> <<>>, selected_triangle |-> <<>>,
     selected_idx |-> 0, visible_face_idx |-> {}, indices_draw |-> {}]

Init ==
    /\ WidgetInit
    /\ default_vertex_attributes = EmptyMap
    /\ cursor_pos = <<0, 0>>
    /\ draw_indices_distance = 0
    /\ camera_position = <<0, 0, 0>>
    /\ projected_vertices = "None"
    /\ overlay = NoOverlay

(***************************************************************************)
(* The public methods, called by the producer threads.                     *)
(***************************************************************************)
MayCall == hist.calls < MaxCalls

\* add_mesh, first part: the picking arrays of the widget are replaced
AddMeshBegin(t, m) ==
    /\ MayCall
    /\ call[t] = "idle"
    /\ Len(hist.returned.core) + Cardinality({u \in Producers : call[u] # "idle"}) < MaxCores
    /\ vertices' = m
    /\ faces' = m
    /\ face_positions' = m
    /\ call' = [call EXCEPT ![t] = m]
    /\ hist' = [hist EXCEPT !.calls = @ + 1]
    /\ UNCHANGED <<mesh_groups, mesh_events, post_draw_events, face_normals,
                   draw_wireframe, ids, stage, mvp_matrix>>
    /\ UNCHANGED <<default_vertex_attributes, picking_vars>>

\* add_mesh, second part: the id is minted, the command enqueued, the id returned
AddMeshEnd(t) ==
    /\ call[t] # "idle"
    /\ LET minted == GlMeshCoreId(ids)
           w == [World EXCEPT !.ids = minted.counters,
                              !.hist.returned.core = Append(@, minted.id)]
       IN  Becomes(Returned([PutMeshEvent(w, [Command("add_mesh", minted.id) EXCEPT
                                                 !.mesh = call[t]])
                                EXCEPT !.ret = minted.id]))
    /\ call' = [call EXCEPT ![t] = "idle"]
    /\ UNCHANGED <<post_draw_events, vertices, faces, face_positions,
                   draw_wireframe, stage, mvp_matrix>>
    /\ UNCHANGED <<default_vertex_attributes, picking_vars>>

\* a public method that is one put (and the minting of an id before it)
Producer(w) ==
    /\ MayCall
    /\ Becomes(Called(w))
    /\ UNCHANGED <<post_draw_events, vertices, faces, face_positions,
                   draw_wireframe, stage, mvp_matrix, call>>
    /\ UNCHANGED <<default_vertex_attributes, picking_vars>>

AddMeshPrefab(core_id, shader, fits, val, copy_from, normal) ==
    /\ Cardinality(KnownPrefabs) < MaxPrefabs
    /\ LET w == add_mesh_prefab(World, [Command("add_mesh_prefab", core_id) EXCEPT
                    !.shader = shader, !.fits = fits, !.val = val,
                    !.copy_from = copy_from, !.normal = normal])
       IN  Producer(Returned(w))

AddMeshInstance(prefab_id, model_matrix) ==
    /\ Cardinality(KnownInstances) < MaxInstances
    /\ LET w == add_mesh_instance(World, [Command("add_mesh_instance", prefab_id) EXCEPT
                    !.model = model_matrix])
       IN  Producer(Returned(w))

UpdateMeshVertices(core_id, m) ==
    Producer(PutMeshEvent(World, [Command("update_mesh_vertices", core_id) EXCEPT
                                        !.mesh = m]))

UpdateMeshPrefabUniform(prefab_id, value) ==
    Producer(PutMeshEvent([World EXCEPT !.hist.uniform_puts =
                              MapPut(@, prefab_id.prefab_id,
                                     IF prefab_id.prefab_id \in DOMAIN @
                                     THEN Append(@[prefab_id.prefab_id], value)
                                     ELSE <<value>>)],
                          [Command("update_mesh_prefab_uniform", prefab_id) EXCEPT
                              !.val = value]))

UpdateMeshPrefabVertexAttribute(prefab_id, value) ==
    Producer(PutMeshEvent(World, [Command("update_mesh_prefab_vertex_attribute", prefab_id)
                                        EXCEPT !.val = value]))

UpdateMeshPrefabFaceAttribute(prefab_id, value) ==
    Producer(PutMeshEvent(World, [Command("update_mesh_prefab_face_attribute", prefab_id)
                                        EXCEPT !.val = value]))

UpdateMeshInstanceModel(instance_id, model) ==
    Producer(PutMeshEvent(World, [Command("update_mesh_instance_model", instance_id)
                                        EXCEPT !.model = model]))

SetMeshInstanceVisibility(instance_id, visibility) ==
    Producer(PutMeshEvent(World, [Command("set_mesh_instance_visibility", instance_id)
                                        EXCEPT !.visible = visibility]))

RemoveMesh(core_id) == Producer(PutMeshEvent(World, Command("remove_mesh", core_id)))

RemoveMeshPrefab(prefab_id) ==
    Producer(PutMeshEvent(World, Command("remove_mesh_prefab", prefab_id)))

RemoveMeshInstance(instance_id) ==
    Producer(PutMeshEvent(World, Command("remove_mesh_instance", instance_id)))

ClearAllAtOnce ==
    Producer([PutMeshEvent(World, Command("clear_all", NoId)) EXCEPT
                 !.mesh_groups = EmptyMap])

ClearAll == Producer(PutMeshEvent(World, Command("clear_all", NoId)))

AddWireframe(instance_id) ==
    Producer(PutMeshEvent(World, Command("add_wireframe", instance_id)))

\* display_point_cloud(points), vertex_attributes left at its default: the dict
\* that is the default gets "vertexColor" if it has no such key, then add_mesh,
\* add_mesh_prefab with that dict, add_mesh_instance with the identity.
\* hist.clouds: the points of the call, by the ordinal of its prefab
DisplayPointCloud(points) ==
    /\ MayCall
    /\ \A t \in Producers : call[t] = "idle"
    /\ Len(hist.returned.core) < MaxCores
    /\ Cardinality(KnownPrefabs) < MaxPrefabs
    /\ Cardinality(KnownInstances) < MaxInstances
    /\ LET vertex_attributes ==
               IF "vertexColor" \in DOMAIN default_vertex_attributes
               THEN default_vertex_attributes
               ELSE MapPut(default_vertex_attributes, "vertexColor", shape0(points))
           minted == GlMeshCoreId(ids)
           w0 == [World EXCEPT !.ids = minted.counters,
                               !.hist.returned.core = Append(@, minted.id)]
           w1 == Returned([PutMeshEvent(w0, [Command("add_mesh", minted.id) EXCEPT
                                                !.mesh = points])
                              EXCEPT !.ret = minted.id])
           w2 == Returned(add_mesh_prefab(w1,
                     [Command("add_mesh_prefab", minted.id) EXCEPT
                         !.shader = "per_vertex_color", !.fits = shaders,
                         !.vertexColor = vertex_attributes["vertexColor"]]))
           w3 == Returned(add_mesh_instance(
                     [w2 EXCEPT !.hist.clouds = MapPut(@, w2.ret.prefab_id, points)],
                     [Command("add_mesh_instance", w2.ret) EXCEPT !.model = Identity]))
       IN  /\ default_vertex_attributes' = vertex_attributes
           /\ Becomes(Called(w3))
    /\ vertices' = points
    /\ faces' = points
    /\ face_positions' = points
    /\ UNCHANGED <<post_draw_events, draw_wireframe, stage, mvp_matrix, call,
                   picking_vars>>

\* display_mesh(vertices, faces, normals): add_mesh, add_mesh_prefab with the
\* lambert shader and the normals as "normal" face attribute, add_mesh_instance
\* with the identity
DisplayMesh(m) ==
    /\ MayCall
    /\ \A t \in Producers : call[t] = "idle"
    /\ Len(hist.returned.core) < MaxCores
    /\ Cardinality(KnownPrefabs) < MaxPrefabs
    /\ Cardinality(KnownInstances) < MaxInstances
    /\ LET minted == GlMeshCoreId(ids)
           w0 == [World EXCEPT !.ids = minted.counters,
                               !.hist.returned.core = Append(@, minted.id)]
           w1 == Returned([PutMeshEvent(w0, [Command("add_mesh", minted.id) EXCEPT
                                                !.mesh = m])
                              EXCEPT !.ret = minted.id])
           w2 == Returned(add_mesh_prefab(w1,
                     [Command("add_mesh_prefab", minted.id) EXCEPT
                         !.shader = "lambert", !.fits = shaders, !.normal = m]))
           w3 == Returned(add_mesh_instance(w2,
                     [Command("add_mesh_instance", w2.ret) EXCEPT !.model = Identity]))
       IN  Becomes(Called(w3))
    /\ vertices' = m
    /\ faces' = m
    /\ face_positions' = m
    /\ UNCHANGED <<post_draw_events, draw_wireframe, stage, mvp_matrix, call,
                   default_vertex_attributes, picking_vars>>

\* save_screenshot: a put on the post-draw queue (and a request for a repaint)
SaveScreenshot ==
    /\ MayCall
    /\ post_draw_events' = Append(post_draw_events,
                                  [Command("save_screenshot", NoId) EXCEPT
                                      !.seq = hist.post_puts + 1])
    /\ hist' = [hist EXCEPT !.calls = @ + 1, !.post_puts = @ + 1]
    /\ UNCHANGED <<mesh_groups, mesh_events, vertices, faces, face_positions,
                   face_normals, draw_wireframe, ids, stage, mvp_matrix, call>>
    /\ UNCHANGED <<default_vertex_attributes, picking_vars>>

(***************************************************************************)
(* The render thread: paintGL, stage by stage.                             *)
(***************************************************************************)
\* the stage that follows a stage of paintGL that ended without exception
NextStageScreenshotFirst(s) ==
    CASE s = "idle" -> "process_mesh_events"
      [] s = "process_mesh_events" -> "process_post_draw_events"
      [] s = "process_post_draw_events" -> "draw"
      [] s = "draw" -> "picking"
      [] s = "picking" -> "idle"
NextStage(s) ==
    CASE s = "idle" -> "process_mesh_events"
      [] s = "process_mesh_events" -> "draw"
      [] s = "draw" -> "picking"
      [] s = "picking" -> "process_post_draw_events"
      [] s = "process_post_draw_events" -> "idle"

\* paintGL is entered (a repaint was requested: update(), an input event, ...)
PaintGL ==
    /\ stage = "idle"
    /\ stage' = NextStage(stage)
    /\ mvp_matrix' = FALSE
    /\ hist' = [hist EXCEPT !.frame = [drained |-> FALSE, drawn |-> FALSE,
                                        overlay |-> FALSE]]
    /\ UNCHANGED <<mesh_groups, mesh_events, post_draw_events, vertices, faces,
                   face_positions, face_normals, draw_wireframe, ids, call>>
    /\ UNCHANGED <<default_vertex_attributes, picking_vars>>

\* process_mesh_events, one iteration: a command is applied; an exception of the
\* apply routine leaves process_mesh_events and paintGL (hist.failed counts them)
ProcessMeshEvent ==
    /\ stage = "process_mesh_events"
    /\ mesh_events # <<>>
    /\ LET w == ProcessOneMeshEvent(World)
       IN  /\ Becomes([w EXCEPT !.hist.failed = IF w.raised = "none" THEN @ ELSE @ + 1])
           /\ stage' = IF w.raised = "none" THEN stage ELSE "idle"
    /\ UNCHANGED <<post_draw_events, vertices, faces, face_positions,
                   draw_wireframe, mvp_matrix, call>>
    /\ UNCHANGED <<default_vertex_attributes, picking_vars>>

\* process_mesh_events, last iteration: get raises Empty, the method returns
ProcessMeshEventsEmpty ==
    /\ stage = "process_mesh_events"
    /\ mesh_events = <<>>
    /\ stage' = NextStage(stage)
    /\ hist' = [hist EXCEPT !.frame.drained = TRUE]
    /\ UNCHANGED <<mesh_groups, mesh_events, post_draw_events, vertices, faces,
                   face_positions, face_normals, draw_wireframe, ids, mvp_matrix,
                   call>>
    /\ UNCHANGED <<default_vertex_attributes, picking_vars>>

\* the instances the loop over self.mesh_groups draws
IsDrawn(group, i) ==
    /\ group.instances[i].visible
    /\ ~(group.prefabs[group.instances[i].prefab].shader = "wireframe" /\ ~draw_wireframe)

\* the drawing loop without lines 223-225: the model matrix is used as it is
DrawInstancesModelKept ==
    /\ stage = "draw"
    /\ mvp_matrix' = \E c \in DOMAIN mesh_groups :
                        \E i \in DOMAIN mesh_groups[c].instances : IsDrawn(mesh_groups[c], i)
    /\ stage' = NextStage(stage)
    /\ hist' = [hist EXCEPT !.frame.drawn = TRUE]
    /\ UNCHANGED <<mesh_groups, mesh_events, post_draw_events, vertices, faces,
                   face_positions, face_normals, draw_wireframe, ids, call>>
    /\ UNCHANGED <<default_vertex_attributes, picking_vars>>

\* the drawing loop: an instance without model matrix gets the identity; the
\* local mvp_matrix is bound by the first instance that is drawn
DrawInstances ==
    /\ stage = "draw"
    /\ mesh_groups' =
         [c \in DOMAIN mesh_groups |->
            [mesh_groups[c] EXCEPT !.instances =
               [i \in DOMAIN @ |->
                  IF IsDrawn(mesh_groups[c], i) /\ @[i].model = NoMatrix
                  THEN [@[i] EXCEPT !.model = Identity]
                  ELSE @[i]]]]
    /\ mvp_matrix' = \E c \in DOMAIN mesh_groups :
                        \E i \in DOMAIN mesh_groups[c].instances : IsDrawn(mesh_groups[c], i)
    /\ stage' = NextStage(stage)
    /\ hist' = [hist EXCEPT !.frame.drawn = TRUE]
    /\ UNCHANGED <<mesh_events, post_draw_events, vertices, faces, face_positions,
                   face_normals, draw_wireframe, ids, call>>
    /\ UNCHANGED <<default_vertex_attributes, picking_vars>>

\* the picking and overlay stage runs to its end: there is no active mesh, or
\* there is one, the projection has what it reads and the faces are triangles
\* (those of display_point_cloud have one column: faces[:, 1] in
\* intersect_triangles raises IndexError)
PickingCompletes ==
    vertices = "None" \/ (mvp_matrix /\ faces # "None" /\ faces \notin PointClouds)

Picking ==
    /\ stage = "picking"
    /\ stage' = IF PickingCompletes THEN NextStage(stage) ELSE "idle"
    /\ hist' = [hist EXCEPT !.frame.overlay = PickingCompletes]
    /\ UNCHANGED <<mesh_groups, mesh_events, post_draw_events, vertices, faces,
                   face_positions, face_normals, draw_wireframe, ids, mvp_matrix, call>>
    /\ UNCHANGED <<default_vertex_attributes, picking_vars>>

\* process_post_draw_events, one iteration: save_screenshot_ grabs the frame buffer
ProcessPostDrawEvent ==
    /\ stage = "process_post_draw_events"
    /\ post_draw_events # <<>>
    /\ post_draw_events' = QueueGet(post_draw_events).rest
    /\ hist' = [hist EXCEPT !.post_applied = @ + 1,
                            !.last_post_event = QueueGet(post_draw_events).event]
    /\ UNCHANGED <<mesh_groups, mesh_events, vertices, faces, face_positions,
                   face_normals, draw_wireframe, ids, stage, mvp_matrix, call>>
    /\ UNCHANGED <<default_vertex_attributes, picking_vars>>

\* process_post_draw_events, last iteration: Empty, paintGL returns
ProcessPostDrawEventsEmpty ==
    /\ stage = "process_post_draw_events"
    /\ post_draw_events = <<>>
    /\ stage' = NextStage(stage)
    /\ UNCHANGED <<mesh_groups, mesh_events, post_draw_events, vertices, faces,
                   face_positions, face_normals, draw_wireframe, ids, mvp_matrix,
                   call, hist>>
    /\ UNCHANGED <<default_vertex_attributes, picking_vars>>

\* keyPressEvent, key W: toggle_wireframe (an event of the thread that paints)
ToggleWireframe ==
    /\ MayCall
    /\ stage = "idle"
    /\ draw_wireframe' = ~draw_wireframe
    /\ hist' = [hist EXCEPT !.calls = @ + 1]
    /\ UNCHANGED <<mesh_groups, mesh_events, post_draw_events, vertices, faces,
                   face_positions, face_normals, ids, stage, mvp_matrix, call>>
    /\ UNCHANGED <<default_vertex_attributes, picking_vars>>

(***************************************************************************)
(* The specification.                                                      *)
(***************************************************************************)
\* the calls of add_mesh_prefab: the attribute maps fit every shader, only the
\* default one, or none; with or without a value for the uniform, a prefab to
\* copy from, a "normal" face attribute (computed for the faces of a mesh)
PrefabCalls ==
    {[shader |-> "lambert", fits |-> f, val |-> 0, copy_from |-> NoId, normal |-> "None"] :
        f \in {shaders, {"default"}, {}}}
    \cup {[shader |-> "lambert", fits |-> shaders, val |-> 1, copy_from |-> c,
           normal |-> "None"] : c \in {NoId} \cup KnownPrefabs}
    \cup {[shader |-> "lambert", fits |-> shaders, val |-> 0, copy_from |-> c,
           normal |-> "None"] : c \in KnownPrefabs}
    \cup {[shader |-> "lambert", fits |-> shaders, val |-> 0, copy_from |-> NoId,
           normal |-> n] : n \in Meshes}
    \cup {[shader |-> NoSuchShader, fits |-> shaders, val |-> 0, copy_from |-> NoId,
           normal |-> "None"]}

Next ==
    \/ \E t \in Producers, m \in Meshes : AddMeshBegin(t, m)
    \/ \E t \in Producers : AddMeshEnd(t)
    \/ \E c \in KnownCores, a \in PrefabCalls :
            AddMeshPrefab(c, a.shader, a.fits, a.val, a.copy_from, a.normal)
    \/ \E p \in KnownPrefabs, model \in Matrices : AddMeshInstance(p, model)
    \/ \E c \in KnownCores, m \in Meshes : UpdateMeshVertices(c, m)
    \/ \E p \in KnownPrefabs, v \in Values : UpdateMeshPrefabUniform(p, v)
    \/ \E p \in KnownPrefabs : UpdateMeshPrefabVertexAttribute(p, 1)
    \/ \E p \in KnownPrefabs : UpdateMeshPrefabFaceAttribute(p, 1)
    \/ \E i \in KnownInstances : UpdateMeshInstanceModel(i, "M")
    \/ \E i \in KnownInstances, b \in BOOLEAN : SetMeshInstanceVisibility(i, b)
    \/ \E c \in KnownCores : RemoveMesh(c)
    \/ \E p \in KnownPrefabs : RemoveMeshPrefab(p)
    \/ \E i \in KnownInstances : RemoveMeshInstance(i)
    \/ ClearAll
    \/ \E i \in KnownInstances : AddWireframe(i)
    \/ SaveScreenshot
    \/ PaintGL
    \/ ProcessMeshEvent
    \/ ProcessMeshEventsEmpty
    \/ DrawInstances
    \/ Picking
    \/ ProcessPostDrawEvent
    \/ ProcessPostDrawEventsEmpty
    \/ ToggleWireframe

Spec == Init /\ [][Next]_vars

\* a step of the render thread
Render ==
    \/ PaintGL
    \/ ProcessMeshEvent
    \/ ProcessMeshEventsEmpty
    \/ DrawInstances
    \/ Picking
    \/ ProcessPostDrawEvent
    \/ ProcessPostDrawEventsEmpty

\* the producers call the methods that address a core, and save_screenshot
CoreCalls ==
    \/ \E t \in Producers, m \in Meshes : AddMeshBegin(t, m)
    \/ \E t \in Producers : AddMeshEnd(t)
    \/ \E c \in KnownCores, m \in Meshes : UpdateMeshVertices(c, m)
    \/ \E c \in KnownCores : RemoveMesh(c)
    \/ ClearAll
    \/ SaveScreenshot

\* frames keep being painted: the render thread is scheduled again and again and
\* the host keeps asking for repaints
FairSpec == Init /\ [][CoreCalls \/ Render]_vars /\ WF_vars(Render)

(***************************************************************************)
(* The picking stage of paintGL on arrays of numbers.                      *)
(*                                                                         *)
(* Numbers are integers: a screen coordinate is in twentieths (20 is 1.0), *)
(* a depth in halves (2 is 1.0, the far end of the cursor ray), world      *)
(* coordinates and w in units.  The tests of the code are comparisons of   *)
(* sums and products of these numbers, so they are taken over exactly (the *)
(* divisions by det become multiplications, det being positive where the   *)
(* quotients are compared; rounding of floats is left out).  Rows and      *)
(* vertex indices count from 1.                                            *)
(***************************************************************************)
\* 1.0 of a projected x or y (projected_vertices <= 1 of in_range_mask)
ScreenOne == 20
\* 1.0 of a projected depth: the z of the far end of the cursor ray
DepthOne == 2

Dot(a, b) == a[1] * b[1] + a[2] * b[2] + a[3] * b[3]
Cross(a, b) ==
    <<a[2] * b[3] - a[3] * b[2], a[3] * b[1] - a[1] * b[3], a[1] * b[2] - a[2] * b[1]>>
Minus(a, b) == <<a[1] - b[1], a[2] - b[2], a[3] - b[3]>>

\* np.argmin: the first index of the least value
argmin(values) ==
    CHOOSE i \in 1..Len(values) :
        /\ \A j \in 1..Len(values) : values[i] <= values[j]
        /\ \A j \in 1..(i - 1) : values[j] > values[i]

\* det of intersect_triangles for the triangle (A, B, C)
Det(ray_start, ray_end, A, B, C) ==
    0 - Dot(Minus(ray_end, ray_start), Cross(Minus(B, A), Minus(C, A)))

\* (det >= 1e-6) & (t >= 0) & (u >= 0) & (v >= 0) & (u + v <= 1) for one triangle
\* whose det is not 0; a det of the model is a multiple of the code's 1e-6
Intersects(ray_start, ray_end, A, B, C) ==
    LET E1 == Minus(B, A)
        E2 == Minus(C, A)
        N == Cross(E1, E2)
        det == Det(ray_start, ray_end, A, B, C)
        AO == Minus(ray_start, A)
        DAO == Cross(AO, Minus(ray_end, ray_start))
        u_det == Dot(E2, DAO)
        v_det == 0 - Dot(E1, DAO)
        t_det == Dot(AO, N)
    IN  /\ det >= 1
        /\ t_det >= 0
        /\ u_det >= 0
        /\ v_det >= 0
        /\ u_det + v_det <= det

\* intersect_triangles: one boolean per face.  With faces of det 0 among faces
\* of det other than 0, u (all faces) times inv_det (the valid faces) or the
\* assignment to intersect[valid_mask] raises ValueError
intersect_triangles(ray_start, ray_end, verts, fcs) ==
    LET det == [f \in 1..Len(fcs) |->
                   Det(ray_start, ray_end, verts[fcs[f][1]], verts[fcs[f][2]],
                       verts[fcs[f][3]])]
        valid_mask == {f \in 1..Len(fcs) : det[f] # 0}
    IN  IF valid_mask = {}
        THEN Found([f \in 1..Len(fcs) |-> FALSE])
        ELSE IF valid_mask # 1..Len(fcs)
        THEN [raised |-> "ValueError"]
        ELSE Found([f \in 1..Len(fcs) |->
                       Intersects(ray_start, ray_end, verts[fcs[f][1]],
                                  verts[fcs[f][2]], verts[fcs[f][3]])])

\* in_range_mask: every column of the projected vertex within [0, 1]
in_range_mask(pv) ==
    {i \in 1..Len(pv) :
        /\ 0 <= pv[i][1] /\ pv[i][1] <= ScreenOne
        /\ 0 <= pv[i][2] /\ pv[i][2] <= ScreenOne
        /\ 0 <= pv[i][3] /\ pv[i][3] <= DepthOne
        /\ 0 <= pv[i][4] /\ pv[i][4] <= 1}

\* the faces the ray test kept, in the order of self.faces
faces_candidates(fcs, intersections) ==
    SelectSeq([f \in 1..Len(fcs) |-> [face |-> fcs[f], hit |-> intersections[f]]],
              LAMBDA c : c.hit)

\* the selected triangle: the candidate of least mean depth
selected_triangle(pv, candidates) ==
    candidates[argmin([k \in 1..Len(candidates) |->
                          pv[candidates[k].face[1]][3] + pv[candidates[k].face[2]][3]
                          + pv[candidates[k].face[3]][3]])].face

\* the selected vertex:
\* argmin((projected_vertices[selected_triangle][:, :2] - cursor).sum(1) ** 2)
selected_idx(pv, triangle, cursor) ==
    triangle[argmin([k \in 1..3 |->
                        ((pv[triangle[k]][1] - cursor[1]) + (pv[triangle[k]][2] - cursor[2]))
                        * ((pv[triangle[k]][1] - cursor[1])
                           + (pv[triangle[k]][2] - cursor[2]))])]

visible_face_idxTowardsFace(positions, camera, normals) ==
    {f \in 1..Len(positions) : Dot(Minus(camera, positions[f]), normals[f]) < 0}

\* back-face culling:
\* ((self.face_positions - self.camera.get_position()) * self.face_normals).sum(1) < 0
visible_face_idx(positions, camera, normals) ==
    {f \in 1..Len(positions) : Dot(Minus(positions[f], camera), normals[f]) < 0}

\* np.unique(self.faces[visible_face_idx]): the vertices of the visible faces
visible_idx(fcs, visible_faces) ==
    {fcs[f][k] : f \in visible_faces, k \in 1..3}

all_valid_idxInRange(visible, in_range) == in_range

\* all_valid_idx = visible_mask & in_range_mask
all_valid_idx(visible, in_range) == visible \cap in_range

\* None, where the other values of the attribute are arrays
NoArray == <<>>

\* the indices whose label is drawn: draw_indices_distance > 0, the vertex valid
\* and nearer than the distance.  Without face normals the product with None
\* raises TypeError
indices_draw(pv, fcs, positions, camera, normals, distance) ==
    IF distance <= 0
    THEN Found({})
    ELSE IF normals = NoArray
    THEN [raised |-> "TypeError"]
    ELSE Found({i \in all_valid_idx(visible_idx(fcs, visible_face_idx(positions, camera,
                                                                      normals)),
                                    in_range_mask(pv)) :
                   pv[i][3] < distance})

\* the picking stage with an active mesh and mvp_matrix bound: what it gives the
\* painter (the selection, then the labels but for that of the selected vertex)
PickingStage ==
    LET xyz == [i \in 1..Len(projected_vertices) |->
                   <<projected_vertices[i][1], projected_vertices[i][2],
                     projected_vertices[i][3]>>]
        hit == intersect_triangles(<<cursor_pos[1], cursor_pos[2], 0>>,
                                   <<cursor_pos[1], cursor_pos[2], DepthOne>>, xyz, faces)
    IN  IF hit.raised # "none"
        THEN [NoOverlay EXCEPT !.raised = hit.raised]
        ELSE LET candidates == faces_candidates(faces, hit.value)
                 triangle == IF candidates = <<>> THEN <<>>
                             ELSE selected_triangle(projected_vertices, candidates)
                 idx == IF candidates = <<>> THEN 0
                        ELSE selected_idx(projected_vertices, triangle, cursor_pos)
                 labels == indices_draw(projected_vertices, faces, face_positions,
                                        camera_position, face_normals,
                                        draw_indices_distance)
             IN  [raised |-> labels.raised,
                  intersections |-> hit.value,
                  selected_triangle |-> triangle,
                  selected_idx |-> idx,
                  visible_face_idx |->
                      IF draw_indices_distance > 0 /\ face_normals # NoArray
                      THEN visible_face_idx(face_positions, camera_position, face_normals)
                      ELSE {},
                  indices_draw |-> IF labels.raised = "none"
                                   THEN labels.value \ {idx} ELSE {}]

\* the picking and overlay stage of a frame, on the arrays
PickingOverlay ==
    /\ stage = "picking"
    /\ mvp_matrix
    /\ overlay' = PickingStage
    /\ stage' = IF overlay'.raised = "none" THEN NextStage(stage) ELSE "idle"
    /\ hist' = [hist EXCEPT !.frame.overlay = (overlay'.raised = "none")]
    /\ UNCHANGED <<mesh_groups, mesh_events, post_draw_events, vertices, faces,
                   face_positions, face_normals, draw_wireframe, ids, mvp_matrix, call,
                   default_vertex_attributes, cursor_pos, draw_indices_distance,
                   camera_position, projected_vertices>>

\* mouseMoveEvent with no button pressed: self.cursor_pos = e.x(), e.y() (an event
\* of the thread that paints; with a button pressed the camera moves as well)
MouseMoveEvent(x, y) ==
    /\ stage = "idle"
    /\ cursor_pos' = <<x, y>>
    /\ UNCHANGED <<mesh_groups, mesh_events, post_draw_events, vertices, faces,
                   face_positions, face_normals, draw_wireframe, ids, stage, mvp_matrix,
                   call, hist, default_vertex_attributes, draw_indices_distance,
                   camera_position, projected_vertices, overlay>>

\* set_draw_indices_distance (called from a slider of the window)
SetDrawIndicesDistance(distance) ==
    /\ stage = "idle"
    /\ draw_indices_distance' = distance
    /\ UNCHANGED <<mesh_groups, mesh_events, post_draw_events, vertices, faces,
                   face_positions, face_normals, draw_wireframe, ids, stage, mvp_matrix,
                   call, hist, default_vertex_attributes, cursor_pos, camera_position,
                   projected_vertices, overlay>>

(***************************************************************************)
(* The scenes the picking stage is run on.                                 *)
(***************************************************************************)
\* number of faces of the active mesh
MaxFaces == 2

\* the projected vertices of the active mesh: (x, y, depth, w)
Projected ==
    <<<<0, 0, 1, 1>>, <<20, 0, 1, 1>>, <<0, 20, 1, 1>>, <<20, 20, 2, 1>>, <<10, 0, 1, 1>>,
      <<30, 0, 1, 1>>>>

\* faces: the two windings of two triangles, a face of no area (its vertices
\* on one line), a face with a vertex outside the viewport
FaceChoices == {<<1, 2, 3>>, <<1, 3, 2>>, <<2, 3, 4>>, <<2, 4, 3>>, <<1, 5, 2>>, <<2, 3, 6>>}

\* face arrays of 1 to MaxFaces faces
FaceArrays == UNION {[1..n -> FaceChoices] : n \in 1..MaxFaces}

\* cursor positions, in twentieths
CursorChoices == {<<5, 5>>, <<18, 18>>, <<18, 1>>}

\* face normals, camera positions, centroid of the f-th face (world coordinates)
NormalChoices == {<<0, 0, 1>>, <<0, 0, -1>>, <<1, 0, 0>>}
CameraChoices == {<<0, 0, 5>>, <<0, 0, -5>>}
Centroids(n) == [f \in 1..n |-> <<f, 0, 1>>]

\* distances of the index labels: -1.0, none, 1.0, 1.5 (in halves)
DistanceChoices == {-2, 0, 2, 3}

\* the registry with the active mesh, a prefab and an instance of it
ShownGroup ==
    LET id == [core_id |-> 1, prefab_id |-> 1, instance_id |-> 1]
        prefab == add_prefab(MeshGroup("meshA"),
                             [Command("add_mesh_prefab", id) EXCEPT !.fits = shaders],
                             "lambert", Found([x |-> 0])).value
    IN  add_instance(prefab, id, Identity).value

\* the widget with a mesh shown (add_mesh, add_mesh_prefab with or without the
\* "normal" face attribute, add_mesh_instance; all applied), the camera somewhere
PickInit ==
    /\ mesh_groups = MapPut(EmptyMap, 1, ShownGroup)
    /\ mesh_events = <<>>
    /\ post_draw_events = <<>>
    /\ vertices = "meshA"
    /\ faces \in FaceArrays
    /\ face_positions = Centroids(Len(faces))
    /\ face_normals \in [1..Len(faces) -> NormalChoices] \cup {NoArray}
    /\ draw_wireframe = TRUE
    /\ ids = [core |-> 1, prefab |-> 1, instance |-> 1]
    /\ stage = "idle"
    /\ mvp_matrix = FALSE
    /\ call = [t \in Producers |-> "idle"]
    /\ hist = NoHistory
    /\ default_vertex_attributes = EmptyMap
    /\ cursor_pos = <<0, 0>>
    /\ draw_indices_distance = 0
    /\ camera_position \in CameraChoices
    /\ projected_vertices = Projected
    /\ overlay = NoOverlay

PickNext ==
    \/ \E c \in CursorChoices : MouseMoveEvent(c[1], c[2])
    \/ \E d \in DistanceChoices : SetDrawIndicesDistance(d)
    \/ PaintGL
    \/ ProcessMeshEventsEmpty
    \/ DrawInstances
    \/ PickingOverlay
    \/ ProcessPostDrawEventsEmpty

PickSpec == PickInit /\ [][PickNext]_vars

(***************************************************************************)
(* add_mesh and the picking stage statement by statement: a producer       *)
(* thread can be suspended between two stores of add_mesh, the thread that *)
(* paints between two reads of the picking stage.  The arrays are named by *)
(* the mesh they were computed from.                                       *)
(***************************************************************************)
\* where a producer is inside add_mesh(m): line 432 done, lines 432-433 done
StoredVertices(m) == m \o ".vertices"
StoredFaces(m) == m \o ".faces"

\* number of faces of a mesh (the meshes differ in it)
NumFaces(m) == IF m = "meshA" THEN 2 ELSE 3

\* add_mesh, line 432: self.vertices
AddMeshVertices(t, m) ==
    /\ MayCall
    /\ call[t] = "idle"
    /\ Len(hist.returned.core) + Cardinality({u \in Producers : call[u] # "idle"}) < MaxCores
    /\ vertices' = m
    /\ call' = [call EXCEPT ![t] = StoredVertices(m)]
    /\ hist' = [hist EXCEPT !.calls = @ + 1]
    /\ UNCHANGED <<mesh_groups, mesh_events, post_draw_events, faces, face_positions,
                   face_normals, draw_wireframe, ids, stage, mvp_matrix>>
    /\ UNCHANGED <<default_vertex_attributes, picking_vars>>

\* add_mesh, line 433: self.faces
AddMeshFaces(t, m) ==
    /\ call[t] = StoredVertices(m)
    /\ faces' = m
    /\ call' = [call EXCEPT ![t] = StoredFaces(m)]
    /\ UNCHANGED <<mesh_groups, mesh_events, post_draw_events, vertices, face_positions,
                   face_normals, draw_wireframe, ids, stage, mvp_matrix, hist>>
    /\ UNCHANGED <<default_vertex_attributes, picking_vars>>

\* add_mesh, line 434: self.face_positions; what is left is AddMeshEnd
AddMeshFacePositions(t, m) ==
    /\ call[t] = StoredFaces(m)
    /\ face_positions' = m
    /\ call' = [call EXCEPT ![t] = m]
    /\ UNCHANGED <<mesh_groups, mesh_events, post_draw_events, vertices, faces,
                   face_normals, draw_wireframe, ids, stage, mvp_matrix, hist>>
    /\ UNCHANGED <<default_vertex_attributes, picking_vars>>

\* paintGL, lines 277-289: without active mesh the stage is skipped; else
\* self.vertices is read and projected with the local mvp_matrix
\* (UnboundLocalError when no instance was drawn)
PickingProject ==
    /\ stage = "picking"
    /\ stage' = IF vertices = "None" THEN NextStage("picking")
                ELSE IF mvp_matrix THEN "intersect" ELSE "idle"
    /\ projected_vertices' = IF vertices # "None" /\ mvp_matrix
                             THEN vertices ELSE projected_vertices
    /\ hist' = [hist EXCEPT !.frame.overlay = (vertices = "None")]
    /\ UNCHANGED <<mesh_groups, mesh_events, post_draw_events, vertices, faces,
                   face_positions, face_normals, draw_wireframe, ids, mvp_matrix, call,
                   default_vertex_attributes, cursor_pos, draw_indices_distance,
                   camera_position, overlay>>

\* paintGL, lines 291-320: self.faces is read for the ray test and the selection
\* (TypeError when it is None; the faces of another mesh index the projected
\* vertices, taken to be in range)
PickingIntersect ==
    /\ stage = "intersect"
    /\ stage' = IF faces = "None" THEN "idle" ELSE "labels"
    /\ UNCHANGED <<mesh_groups, mesh_events, post_draw_events, vertices, faces,
                   face_positions, face_normals, draw_wireframe, ids, mvp_matrix, call,
                   hist, default_vertex_attributes, picking_vars>>

\* the arrays of lines 326-327 go together: none is None, and face_positions,
\* face_normals and the mask that indexes self.faces have the same length
LabelArraysFit ==
    /\ face_positions # "None"
    /\ face_normals # "None"
    /\ NumFaces(face_positions) = NumFaces(face_normals)
    /\ NumFaces(face_positions) = NumFaces(faces)

\* paintGL, lines 322-342: with a distance above 0, self.face_positions,
\* self.face_normals and self.faces are read for the labels
PickingLabels ==
    /\ stage = "labels"
    /\ LET completes == draw_indices_distance > 0 => LabelArraysFit
       IN  /\ stage' = IF completes THEN NextStage("picking") ELSE "idle"
           /\ hist' = [hist EXCEPT !.frame.overlay = completes]
    /\ UNCHANGED <<mesh_groups, mesh_events, post_draw_events, vertices, faces,
                   face_positions, face_normals, draw_wireframe, ids, mvp_matrix, call,
                   default_vertex_attributes, picking_vars>>

\* the mesh add_mesh was called with when it returned core_id: that of its
\* add_mesh command, queued or applied
MeshAdded(core_id) ==
    IF \E k \in DOMAIN mesh_events :
          mesh_events[k].type = "add_mesh" /\ mesh_events[k].id = core_id
    THEN mesh_events[CHOOSE k \in DOMAIN mesh_events :
                        mesh_events[k].type = "add_mesh" /\ mesh_events[k].id = core_id].mesh
    ELSE mesh_groups[core_id.core_id].mesh

\* the producers add meshes, prefabs without the "normal" face attribute or with
\* the normals of the faces of their core, and instances; the window sets the
\* distance of the labels
StatementCalls ==
    \/ \E t \in Producers, m \in Meshes : AddMeshVertices(t, m)
    \/ \E t \in Producers, m \in Meshes : AddMeshFaces(t, m)
    \/ \E t \in Producers, m \in Meshes : AddMeshFacePositions(t, m)
    \/ \E t \in Producers : call[t] \in Meshes /\ AddMeshEnd(t)
    \/ \E c \in KnownCores : \E n \in {"None", MeshAdded(c)} :
            AddMeshPrefab(c, "lambert", shaders, 0, NoId, n)
    \/ \E p \in KnownPrefabs : AddMeshInstance(p, Identity)
    \/ \E d \in {0, 2} : SetDrawIndicesDistance(d)

\* the steps of the thread that paints
StatementRender ==
    \/ PaintGL
    \/ ProcessMeshEvent
    \/ ProcessMeshEventsEmpty
    \/ DrawInstances
    \/ PickingProject
    \/ PickingIntersect
    \/ PickingLabels
    \/ ProcessPostDrawEventsEmpty

StatementSpec == Init /\ [][StatementCalls \/ StatementRender]_vars

\* the application shows point clouds (and takes them away again)
ConvenienceCalls ==
    \/ \E points \in PointClouds : DisplayPointCloud(points)
    \/ \E c \in KnownCores : RemoveMesh(c)
    \/ \E i \in KnownInstances : SetMeshInstanceVisibility(i, FALSE)
    \/ SaveScreenshot

CloudSpec == Init /\ [][ConvenienceCalls \/ Render]_vars

\* the application shows meshes, asks for wireframes of their instances and
\* takes meshes away again
SceneCalls ==
    \/ \E m \in Meshes : DisplayMesh(m)
    \/ \E i \in KnownInstances : AddWireframe(i)
    \/ \E c \in KnownCores : RemoveMesh(c)
    \/ ClearAll
    \/ SaveScreenshot

SceneSpec == Init /\ [][SceneCalls \/ Render]_vars

(***************************************************************************)
(* Producers that never stop calling.  The history of the run (hist) counts *)
(* the calls and the commands, so it is not kept here: puts and pops leave  *)
(* it as it is, and the queue is cut off at MaxQueue commands.             *)
(***************************************************************************)
\* the record with the history of the state
Unrecorded(w) == [w EXCEPT !.hist = hist]

\* update_mesh_vertices, called once more
KeepUpdatingMeshVertices(core_id, m) ==
    /\ Len(mesh_events) < MaxQueue
    /\ Becomes(Unrecorded(PutMeshEvent(World, [Command("update_mesh_vertices", core_id)
                                                  EXCEPT !.mesh = m])))
    /\ UNCHANGED <<post_draw_events, vertices, faces, face_positions,
                   draw_wireframe, stage, mvp_matrix, call>>
    /\ UNCHANGED <<default_vertex_attributes, picking_vars>>

\* remove_mesh, called once more
KeepRemovingMesh(core_id) ==
    /\ Len(mesh_events) < MaxQueue
    /\ Becomes(Unrecorded(PutMeshEvent(World, Command("remove_mesh", core_id))))
    /\ UNCHANGED <<post_draw_events, vertices, faces, face_positions,
                   draw_wireframe, stage, mvp_matrix, call>>
    /\ UNCHANGED <<default_vertex_attributes, picking_vars>>

\* process_mesh_events, one iteration
KeepProcessingMeshEvents ==
    /\ stage = "process_mesh_events"
    /\ mesh_events # <<>>
    /\ LET w == ProcessOneMeshEvent(World)
       IN  /\ Becomes(Unrecorded(w))
           /\ stage' = IF w.raised = "none" THEN stage ELSE "idle"
    /\ UNCHANGED <<post_draw_events, vertices, faces, face_positions,
                   draw_wireframe, mvp_matrix, call>>
    /\ UNCHANGED <<default_vertex_attributes, picking_vars>>

\* a step of the render thread
KeepRendering ==
    \/ PaintGL
    \/ KeepProcessingMeshEvents
    \/ ProcessMeshEventsEmpty
    \/ DrawInstances
    \/ Picking
    \/ ProcessPostDrawEventsEmpty

KeepCalling ==
    \/ \E t \in Producers, m \in Meshes : AddMeshBegin(t, m)
    \/ \E t \in Producers : AddMeshEnd(t)
    \/ \E c \in KnownCores, m \in Meshes : KeepUpdatingMeshVertices(c, m)
    \/ \E c \in KnownCores : KeepRemovingMesh(c)

\* the render thread is scheduled again and again, and so may the producers be
BusySpec == Init /\ [][KeepCalling \/ KeepRendering]_vars /\ WF_vars(KeepRendering)

(***************************************************************************)
(* Properties.                                                             *)
(***************************************************************************)
\* commands of a type pending on the pre-draw queue
Pending(type, id) ==
    \E k \in 1..Len(mesh_events) : mesh_events[k].type = type /\ mesh_events[k].id = id

\* C1: on each of the two queues the commands are applied one by one in the
\* order of the puts: the k-th command applied is the k-th command put, and the
\* commands still queued are the following puts, in order (none is applied
\* twice, skipped, reordered or merged with another).
C1_AppliedInEnqueueOrder ==
    /\ hist.applied + Len(mesh_events) = hist.puts
    /\ \A k \in 1..Len(mesh_events) : mesh_events[k].seq = hist.applied + k
    /\ hist.applied > 0 => hist.last_event.seq = hist.applied
    /\ hist.post_applied + Len(post_draw_events) = hist.post_puts
    /\ \A k \in 1..Len(post_draw_events) : post_draw_events[k].seq = hist.post_applied + k
    /\ hist.post_applied > 0 => hist.last_post_event.seq = hist.post_applied

\* C1 witness: commands of both queues were applied and a later one is queued
C1_Witness ==
    /\ hist.applied >= 2
    /\ hist.post_applied >= 1
    /\ mesh_events # <<>>

\* C2: for a prefab that is in the registry, once no update of its uniform is
\* pending, the uniform holds the value of the last update that was enqueued.
C2_LastUpdateWins ==
    \A p \in KnownPrefabs :
        (/\ p.prefab_id \in DOMAIN hist.uniform_puts
         /\ ~\E k \in 1..Len(mesh_events) :
                /\ mesh_events[k].type = "update_mesh_prefab_uniform"
                /\ mesh_events[k].id = p
         /\ get_mesh_prefab(mesh_groups, p).raised = "none")
        => get_mesh_prefab(mesh_groups, p).value.x
             = hist.uniform_puts[p.prefab_id][Len(hist.uniform_puts[p.prefab_id])]

\* C2 witness: the updates 1 then 2 were enqueued and drained, the uniform is 2
C2_Witness ==
    \E p \in KnownPrefabs :
        /\ p.prefab_id \in DOMAIN hist.uniform_puts
        /\ hist.uniform_puts[p.prefab_id] = <<1, 2>>
        /\ mesh_events = <<>>
        /\ get_mesh_prefab(mesh_groups, p).raised = "none"
        /\ get_mesh_prefab(mesh_groups, p).value.x = 2

\* a step in which a producer calls a public method (or completes add_mesh)
IsCall == hist'.calls # hist.calls \/ call' # call

\* the registry after the drawing loop gave the identity to instances without
\* model matrix: the same entities, the same fields but for those model matrices
OnlyModelDefaulted ==
    /\ DOMAIN mesh_groups' = DOMAIN mesh_groups
    /\ \A c \in DOMAIN mesh_groups :
        /\ mesh_groups'[c].mesh = mesh_groups[c].mesh
        /\ mesh_groups'[c].prefabs = mesh_groups[c].prefabs
        /\ DOMAIN mesh_groups'[c].instances = DOMAIN mesh_groups[c].instances
        /\ \A i \in DOMAIN mesh_groups[c].instances :
            \/ mesh_groups'[c].instances[i] = mesh_groups[c].instances[i]
            \/ /\ mesh_groups[c].instances[i].model = NoMatrix
               /\ mesh_groups'[c].instances[i] =
                    [mesh_groups[c].instances[i] EXCEPT !.model = Identity]

\* C3 (as stated): no call of a public method changes the registry, and the
\* registry changes only in a step of the drain of the pre-draw queue.
C3_RegistryChangesOnlyInDrain ==
    [][/\ IsCall => mesh_groups' = mesh_groups
       /\ mesh_groups' # mesh_groups => stage = "process_mesh_events"]_vars

\* C3 (amended): no call of a public method changes the registry; the registry
\* changes only in steps of the render thread: in the drain of the pre-draw
\* queue, and in the drawing loop, which does nothing to it but give the
\* identity to instances that have no model matrix.
C3_RegistryChangesOnlyInRenderThread ==
    [][/\ IsCall => mesh_groups' = mesh_groups
       /\ mesh_groups' # mesh_groups =>
            /\ ~IsCall
            /\ \/ stage = "process_mesh_events"
               \/ stage = "draw" /\ OnlyModelDefaulted]_vars

\* C3 witness: an instance that was added without model matrix has the identity
\* (the drawing loop gave it), and a public method was called since (its command
\* is queued)
C3_Witness ==
    /\ hist.last_event.type = "add_mesh_instance"
    /\ hist.last_event.model = NoMatrix
    /\ get_mesh_instance(mesh_groups, hist.last_event.id).raised = "none"
    /\ get_mesh_instance(mesh_groups, hist.last_event.id).value.model = Identity
    /\ mesh_events # <<>>

\* the instances the producers were returned, with their prefab and core: the
\* three add commands are pending and no command that removes is
ChainPending(i) ==
    /\ Pending("add_mesh", [i EXCEPT !.prefab_id = 0, !.instance_id = 0])
    /\ \E k \in 1..Len(mesh_events) :
          /\ mesh_events[k].type = "add_mesh_prefab"
          /\ mesh_events[k].id = [i EXCEPT !.instance_id = 0]
          /\ mesh_events[k].shader \in shaders
    /\ Pending("add_mesh_instance", i)
    /\ \A k \in 1..Len(mesh_events) :
          mesh_events[k].type \notin
             {"remove_mesh", "remove_mesh_prefab", "remove_mesh_instance", "clear_all"}

\* C4: the ids are returned before the entities exist, and they chain: when the
\* add_mesh, the add_mesh_prefab (with a shader of the registry) and the
\* add_mesh_instance of an instance id are all pending (and no removal is), the
\* core is not in the registry, and a drain that returns leaves the registry
\* with that core, that prefab in it, and that instance of that prefab.
C4_IdsChain ==
    \A i \in KnownInstances :
        ChainPending(i) =>
            /\ get_mesh(mesh_groups, i).raised = "KeyError"
            /\ LET after == process_mesh_events(World)
               IN  after.raised = "none" =>
                     /\ after.mesh_events = <<>>
                     /\ get_mesh(after.mesh_groups, i).raised = "none"
                     /\ get_mesh_prefab(after.mesh_groups, i).raised = "none"
                     /\ get_mesh_instance(after.mesh_groups, i).raised = "none"
                     /\ get_mesh_instance(after.mesh_groups, i).value.prefab = i.prefab_id

\* C4 witness: such a chain is pending and the drain of it returns
C4_Witness ==
    \E i \in KnownInstances :
        /\ ChainPending(i)
        /\ process_mesh_events(World).raised = "none"

\* C5: at each level of the hierarchy the ids are returned in strictly
\* increasing order of their ordinal, whatever was removed meanwhile (so no two
\* are equal and none is used again).
C5_IdsStrictlyIncreasing ==
    /\ \A k, l \in 1..Len(hist.returned.core) :
          k < l => hist.returned.core[k].core_id < hist.returned.core[l].core_id
    /\ \A k, l \in 1..Len(hist.returned.prefab) :
          k < l => hist.returned.prefab[k].prefab_id < hist.returned.prefab[l].prefab_id
    /\ \A k, l \in 1..Len(hist.returned.instance) :
          k < l => hist.returned.instance[k].instance_id
                     < hist.returned.instance[l].instance_id

\* C5 witness: two cores were added, one of them was removed, while two
\* producers were inside add_mesh at the same time or one after the other
C5_Witness ==
    /\ Len(hist.returned.core) = 2
    /\ hist.removed # {}

\* C6 (as stated): once an add_mesh_prefab that names a shader which is not in
\* the shader registry has been applied to a core of the registry, the prefab is
\* in the registry, bound to the "default" shader, and a diagnostic was printed.
C6_UnknownShaderFallsBack ==
    (/\ hist.applied > 0
     /\ hist.last_event.type = "add_mesh_prefab"
     /\ hist.last_event.shader \notin shaders
     /\ get_mesh(mesh_groups, hist.last_event.id).raised = "none")
    => /\ get_mesh_prefab(mesh_groups, hist.last_event.id).raised = "none"
       /\ get_mesh_prefab(mesh_groups, hist.last_event.id).value.shader = "default"
       /\ hist.printed

\* C7: what an applied remove_mesh took out of the registry (the core, its
\* prefabs, its instances) stays out: the three lookups raise for these ids,
\* and for every id under that core, in every later state.
C7_RemovedMeshStaysRemoved ==
    \A id \in hist.removed :
        /\ get_mesh(mesh_groups, id).raised = "KeyError"
        /\ get_mesh_prefab(mesh_groups, id).raised = "KeyError"
        /\ get_mesh_instance(mesh_groups, id).raised = "KeyError"
        /\ \A other \in hist.known :
              other.core_id = id.core_id =>
                 /\ get_mesh_prefab(mesh_groups, other).raised = "KeyError"
                 /\ get_mesh_instance(mesh_groups, other).raised = "KeyError"

\* C7 witness: a core that had a prefab and an instance was removed, and the
\* frame went on after that
C7_Witness ==
    /\ \E id \in hist.removed : id.instance_id # 0
    /\ stage = "picking"

\* C8: the step that applies remove_mesh_prefab(p) leaves every core in the
\* registry, every other core as it was, and in the core of p its mesh, its
\* other prefabs and their instances as they were; p and its instances are gone.
C8_RemovePrefabFrame ==
    [][(/\ hist'.applied = hist.applied + 1
        /\ hist'.last_event.type = "remove_mesh_prefab")
       => LET p == hist'.last_event.id
              c == p.core_id
          IN  /\ DOMAIN mesh_groups' = DOMAIN mesh_groups
              /\ \A d \in DOMAIN mesh_groups \ {c} : mesh_groups'[d] = mesh_groups[d]
              /\ c \in DOMAIN mesh_groups =>
                   /\ mesh_groups'[c].mesh = mesh_groups[c].mesh
                   /\ DOMAIN mesh_groups'[c].prefabs =
                         DOMAIN mesh_groups[c].prefabs \ {p.prefab_id}
                   /\ \A q \in DOMAIN mesh_groups'[c].prefabs :
                         mesh_groups'[c].prefabs[q] = mesh_groups[c].prefabs[q]
                   /\ DOMAIN mesh_groups'[c].instances =
                         {i \in DOMAIN mesh_groups[c].instances :
                             mesh_groups[c].instances[i].prefab # p.prefab_id}
                   /\ \A i \in DOMAIN mesh_groups'[c].instances :
                         mesh_groups'[c].instances[i] = mesh_groups[c].instances[i]]_vars

\* C8 witness: a prefab was removed from a core that keeps a sibling prefab
C8_Witness ==
    \E p \in hist.removed_prefabs :
        /\ hist.last_event.type = "remove_mesh_prefab"
        /\ hist.last_event.id = p
        /\ p.core_id \in DOMAIN mesh_groups
        /\ DOMAIN mesh_groups[p.core_id].prefabs # {}

\* the state of the widget that a drain can touch, for comparison
Effect(w) == <<w.mesh_groups, w.mesh_events, w.face_normals, w.ids>>

\* C9 (as stated): a drain of the empty pre-draw queue changes nothing, and a
\* second drain right after a drain changes nothing either.
C9_DrainIdempotent ==
    LET once == process_mesh_events(World)
        twice == process_mesh_events([once EXCEPT !.raised = "none"])
    IN  /\ mesh_events = <<>> => Effect(once) = Effect(World) /\ once.raised = "none"
        /\ Effect(twice) = Effect(once)

\* the stages of a frame in their order
FrameOrder ==
    {<<"idle", "process_mesh_events">>, <<"process_mesh_events", "draw">>,
     <<"draw", "picking">>, <<"picking", "process_post_draw_events">>,
     <<"process_post_draw_events", "idle">>}

\* C10: the stages of a frame follow one another in the order drain of the
\* pre-draw queue, drawing, picking and overlay, drain of the post-draw queue
\* (a frame that raises ends there); a pre-draw command is applied only before
\* the drawing of the frame has started, a post-draw command only after drawing
\* and overlay of the frame are done.
C10_StagesInOrder ==
    [][/\ stage' # stage => stage' = "idle" \/ <<stage, stage'>> \in FrameOrder
       /\ hist'.applied # hist.applied =>
             ~hist.frame.drained /\ ~hist.frame.drawn /\ ~hist.frame.overlay
       /\ ~hist.frame.drawn /\ hist'.frame.drawn =>
             hist.frame.drained /\ ~hist.frame.overlay
       /\ ~hist.frame.overlay /\ hist'.frame.overlay =>
             hist.frame.drained /\ hist.frame.drawn
       /\ hist'.post_applied # hist.post_applied =>
             hist.frame.drained /\ hist.frame.drawn /\ hist.frame.overlay]_vars

\* C10 witness: a post-draw command was applied in a frame whose drain applied a
\* pre-draw command, while a command enqueued since that drain waits
C10_Witness ==
    /\ stage = "process_post_draw_events"
    /\ hist.post_applied >= 1
    /\ hist.applied >= 1
    /\ mesh_events # <<>>

\* C12 (as stated): a command whose apply routine fails is skipped and the drain
\* goes on: from the drain of the pre-draw queue the render thread only goes on
\* draining or on to the drawing loop (the frame is still drawn).
C12_FailingCommandSkipped ==
    [][stage = "process_mesh_events" => stage' \in {"process_mesh_events", "draw"}]_vars

\* the core of the active mesh: the one the last add_mesh call returned
ActiveCore == hist.returned.core[Len(hist.returned.core)]

\* C19 (as stated): when picking projects the vertices of the active mesh, they
\* are the current vertices of its core in the registry (those of the last
\* update_mesh_vertices that a drain applied, if there was one).
C19_PickingUsesCurrentVertices ==
    (/\ stage = "picking"
     /\ PickingCompletes
     /\ vertices # "None"
     /\ \A t \in Producers : call[t] = "idle"
     /\ Len(hist.returned.core) = 1
     /\ ActiveCore.core_id \in DOMAIN mesh_groups)
    => vertices = mesh_groups[ActiveCore.core_id].mesh

\* the most commands a run puts on the pre-draw queue: one per call, and two
\* more for each add_wireframe that is applied
MaxCommands == 3 * MaxCalls

\* C13: while frames keep being painted, the k-th command put on the pre-draw
\* queue is eventually taken off it and handed to its apply routine, for every
\* k: no put is cancelled by a later remove_mesh, none is discarded with a
\* command that failed before it.
C13_EveryCommandApplied ==
    \A k \in 1..MaxCommands : (hist.puts >= k) ~> (hist.applied >= k)

\* C13 witness: a command failed, a remove_mesh was applied, and every command
\* that was put has been applied since
C13_Witness ==
    /\ hist.failed >= 1
    /\ hist.removed # {}
    /\ hist.applied = hist.puts
    /\ hist.applied >= 3
    /\ hist.last_event.seq > 2

\* C11 (as stated): every drain terminates, whatever the producers do meanwhile:
\* the render thread always gets out of the drain of the pre-draw queue and
\* out of the drain of the post-draw queue.
C11_DrainTerminates ==
    /\ (stage = "process_mesh_events") ~> (stage # "process_mesh_events")
    /\ (stage = "process_post_draw_events") ~> (stage # "process_post_draw_events")

\* C20 (as stated): the prefab of a display_point_cloud call that left
\* vertex_attributes at its default has a vertexColor array with one row for
\* each point of that call.
C20_FreshDefaultPerCall ==
    \A q \in DOMAIN hist.clouds :
        \A c \in DOMAIN mesh_groups :
            q \in DOMAIN mesh_groups[c].prefabs
            => mesh_groups[c].prefabs[q].vertexColor = shape0(hist.clouds[q])

\* the picking stage of the frame has run to its end on the arrays, the cursor
\* and the distance of the state
Picked == stage = "process_post_draw_events" /\ projected_vertices # "None"

\* C14 (as stated): for the one triangle (0,0,0.5), (1,0,0.5), (0,1,0.5), in
\* that order, the ray test is true with the cursor at (0.25, 0.25) and false
\* with the cursor at (0.9, 0.9).
C14_UnitTriangle ==
    (Picked /\ faces = <<<<1, 2, 3>>>>)
    => /\ cursor_pos = <<5, 5>> => overlay.intersections = <<TRUE>>
       /\ cursor_pos = <<18, 18>> => overlay.intersections = <<FALSE>>

\* a face of no area on the screen
ZeroArea(face) ==
    Cross(Minus(projected_vertices[face[2]], projected_vertices[face[1]]),
          Minus(projected_vertices[face[3]], projected_vertices[face[1]])) = <<0, 0, 0>>

\* the ray test of one face alone
AloneIntersects(face) ==
    intersect_triangles(<<cursor_pos[1], cursor_pos[2], 0>>,
                        <<cursor_pos[1], cursor_pos[2], DepthOne>>,
                        projected_vertices, <<face>>).value[1]

\* C16 (as stated): the ray test never fails on a face of no area: such a face
\* is reported as not intersected, every other face as it is alone.
C16_DegenerateFaceSkipped ==
    /\ overlay.raised # "ValueError"
    /\ Picked =>
          \A f \in 1..Len(faces) :
              overlay.intersections[f] = (~ZeroArea(faces[f]) /\ AloneIntersects(faces[f]))

\* dx^2 + dy^2 of a vertex to the cursor
SquaredDistance(i) ==
    (projected_vertices[i][1] - cursor_pos[1]) * (projected_vertices[i][1] - cursor_pos[1])
    + (projected_vertices[i][2] - cursor_pos[2]) * (projected_vertices[i][2] - cursor_pos[2])

\* C17 (as stated): the selected vertex is a vertex of the selected triangle
\* that is nearest to the cursor by dx^2 + dy^2.
C17_NearestVertexSelected ==
    (Picked /\ overlay.selected_idx # 0)
    => \A k \in 1..3 :
           SquaredDistance(overlay.selected_idx)
               <= SquaredDistance(overlay.selected_triangle[k])

\* the faces that pass back-face culling: the view vector (from the camera to
\* the centroid of the face) dotted with the normal is not >= 0
PassesCulling(f) ==
    ~(Dot(Minus(face_positions[f], camera_position), face_normals[f]) >= 0)

\* C15: the indices handed over to be labelled (the label list; the selected
\* vertex has its own marker) are vertices of a face that passes back-face
\* culling, whatever the distance; a distance <= 0 gives no index at all.
C15_LabelsOnlyOnVisibleFaces ==
    Picked =>
        /\ \A i \in overlay.indices_draw :
               \E f \in 1..Len(faces) :
                   /\ \E k \in 1..3 : faces[f][k] = i
                   /\ PassesCulling(f)
        /\ draw_indices_distance <= 0 => overlay.indices_draw = {}

\* C15 witness: an index is labelled, and a vertex in range, near enough and
\* not selected is not labelled, all its faces pointing away from the camera
C15_Witness ==
    /\ Picked
    /\ overlay.indices_draw # {}
    /\ \E i \in in_range_mask(projected_vertices) \ overlay.indices_draw :
           /\ i # overlay.selected_idx
           /\ projected_vertices[i][3] < draw_indices_distance
           /\ \E f \in 1..Len(faces) : \E k \in 1..3 : faces[f][k] = i
           /\ \A f \in 1..Len(faces) :
                  (\E k \in 1..3 : faces[f][k] = i) => ~PassesCulling(f)

\* C18 (as stated): a face counts as visible iff the vector from its centroid
\* to the camera (camera minus centroid), dotted with its normal, is negative.
C18_VisibleIffCentroidToCameraNegative ==
    (Picked /\ draw_indices_distance > 0) =>
        \A f \in 1..Len(faces) :
            f \in overlay.visible_face_idx
            <=> Dot(Minus(camera_position, face_positions[f]), face_normals[f]) < 0

\* C18 (amended): a face counts as visible iff the vector from its centroid to
\* the camera, dotted with its normal, is positive (the normal points to the
\* side of the camera); that is, iff the vector from the camera to the
\* centroid, dotted with the normal, is negative.
C18_VisibleIffCentroidToCameraPositive ==
    (Picked /\ draw_indices_distance > 0) =>
        \A f \in 1..Len(faces) :
            f \in overlay.visible_face_idx
            <=> Dot(Minus(camera_position, face_positions[f]), face_normals[f]) > 0

\* C18 witness: of two faces one counts as visible and one does not, its
\* normal pointing away from the camera
C18_Witness ==
    /\ Picked
    /\ draw_indices_distance > 0
    /\ \E f, g \in 1..Len(faces) :
           /\ f \in overlay.visible_face_idx
           /\ g \notin overlay.visible_face_idx
           /\ Dot(Minus(camera_position, face_positions[g]), face_normals[g]) < 0

\* C21: an instance that the drawing loop draws has a model matrix afterwards:
\* the one it had, or the 4x4 identity when it had none (no add_mesh_instance or
\* update_mesh_instance_model command had supplied one).
C21_DrawnInstanceGetsIdentity ==
    [][(stage = "draw" /\ stage' # "draw")
       => \A c \in DOMAIN mesh_groups :
             \A i \in DOMAIN mesh_groups[c].instances :
                IsDrawn(mesh_groups[c], i)
                => LET before == mesh_groups[c].instances[i].model
                       after == mesh_groups'[c].instances[i].model
                   IN  /\ after # NoMatrix
                       /\ before = NoMatrix => after = Identity
                       /\ before # NoMatrix => after = before]_vars

\* C21 witness: the last command applied was an add_mesh_instance without a
\* model matrix; the frame has drawn that instance and it has the identity
C21_Witness ==
    /\ stage = "picking"
    /\ mvp_matrix
    /\ hist.last_event.type = "add_mesh_instance"
    /\ hist.last_event.model = NoMatrix
    /\ hist.last_event.id.core_id \in DOMAIN mesh_groups
    /\ LET group == mesh_groups[hist.last_event.id.core_id]
           i == hist.last_event.id.instance_id
       IN  /\ i \in DOMAIN group.instances
           /\ IsDrawn(group, i)
           /\ group.instances[i].model = Identity

\* C22 (as stated): whenever the picking stage of a frame is reached with an
\* active mesh set, it has a model-view-projection matrix to project with and
\* runs to its end, in frames that drew no instance as well.
C22_PickingHasMatrix ==
    (stage = "picking" /\ vertices # "None") => (mvp_matrix /\ PickingCompletes)

\* C23 (as stated): whatever the interleaving of add_mesh with paintGL, the
\* faces the picking stage reads (ray test, labels) and the face centroids it
\* reads (labels) are those of the mesh whose vertices it projected.
C23_PickingReadsOneMesh ==
    /\ stage = "intersect" => faces = projected_vertices
    /\ (stage = "labels" /\ draw_indices_distance > 0)
       => (faces = projected_vertices /\ face_positions = projected_vertices)

\* C24 (as stated): when the labels are computed and no add_mesh call is in the
\* middle of its stores, the face normals and the face centroids that
\* back-face culling multiplies are those of the faces of the active mesh.
C24_NormalsAndCentroidsOfActiveMesh ==
    (/\ stage = "labels"
     /\ draw_indices_distance > 0
     /\ \A t \in Producers : call[t] \in {"idle"} \cup Meshes)
    => (face_normals = faces /\ face_positions = faces)

\* a step of the drain in which add_wireframe_ ran to its end
WireframeApplied ==
    /\ hist'.applied = hist.applied + 1
    /\ hist'.failed = hist.failed
    /\ hist'.last_event.type = "add_wireframe"

\* the group of core c has a wireframe prefab with an instance
WireframeCreated(groups, c) ==
    /\ c \in DOMAIN groups
    /\ \E q \in DOMAIN groups[c].prefabs :
          /\ groups[c].prefabs[q].shader = "wireframe"
          /\ \E i \in DOMAIN groups[c].instances : groups[c].instances[i].prefab = q

\* C25 (as stated): when add_wireframe_ has run, the wireframe prefab and
\* instance are in the registry, or at least no command that was enqueued after
\* the add_wireframe is still ahead of the two commands that create them.
C25_WireframeAtItsPosition ==
    [][WireframeApplied
       => \/ WireframeCreated(mesh_groups', hist'.last_event.id.core_id)
          \/ Len(mesh_events') = 2]_vars

\* the active mesh was put in the registry by its add_mesh command and a
\* remove_mesh or clear_all took it out; no add_mesh call is under way
ActiveMeshRemoved ==
    /\ hist.returned.core # <<>>
    /\ \A t \in Producers : call[t] = "idle"
    /\ ~Pending("add_mesh", ActiveCore)
    /\ ActiveCore.core_id \notin DOMAIN mesh_groups

\* C26 (as stated): once the active mesh has been removed from the registry, no
\* frame runs the picking stage (ray test, selection, labels) on its arrays.
C26_PickingOnlyOnLiveMesh ==
    ActiveMeshRemoved
    => ~(stage = "process_post_draw_events" /\ hist.frame.overlay /\ vertices # "None")

====
